---- MODULE Spec2Model ----
(***************************************************************************)
(* Model of the API gateway and the recipe-import service of               *)
(* MEAL_TRACKER_v3:                                                        *)
(*   - AuthService (services/api-gateway/src/auth.rs): token issuance,     *)
(*     validation, refresh and bearer-header parsing;                      *)
(*   - the auth handlers (handlers/mod.rs): register and login;            *)
(*   - the router and auth_middleware (main.rs, middleware_layer.rs);      *)
(*   - the service orchestrator (services.rs) and the rate-limit counter  *)
(*     of the cache (cache.rs);                                            *)
(*   - the recipe-import service's import jobs (recipe-import-service:    *)
(*     main.rs, recipe_importer.rs).                                       *)
(* The JWT codec (crate jsonwebtoken) is modelled by what encode/decode    *)
(* do with Header::default() and Validation::default(): HS256, a 60 s      *)
(* leeway on exp, signature checked before the claims are deserialized,    *)
(* claims deserialized before exp is validated.  HMAC is an ideal MAC: a   *)
(* signature is the triple (key, algorithm, signed payload).               *)
(***************************************************************************)
EXTENDS Integers, Sequences, FiniteSets, TLC

VARIABLES
    now,          \* wall clock, whole seconds since the epoch
    ticks,        \* number of clock advances so far (bounds the run)
    env_secret,   \* the JWT_SECRET environment variable, or Unset
    uuid_ctr,     \* number of Uuid::new_v4() values drawn so far
    issued,       \* the tokens the caller holds: those of the last issuance
    holder,       \* the operation that issued them and the inputs it was given
    issues,       \* number of issuing operations so far (bounds the run)
    refreshes,    \* number of successful refreshes so far (bounds the run)
    users,        \* rows of the users table
    last,         \* the call just made: its inputs, the time and its result;
                  \* Idle once the caller has taken the result
    env_expiration, \* the JWT_EXPIRATION environment variable, or Unset
    downstream,   \* how each downstream microservice answers a request
    deps,         \* whether the gateway's own database and cache answer
    service_urls, \* ServiceOrchestrator.service_urls: name -> base URL
    hc,           \* the GET /health request in progress and its position
    call,         \* the orchestrated call in progress and its position
    net,          \* the requests sent downstream by the operation in progress
    users_email_unique, \* whether the users table rejects a second row
                  \* with an email it already holds
    reg,          \* the register requests and the position of each
    import_jobs,  \* AppState.import_jobs of the recipe-import service
    tasks,        \* the background tasks spawned by import_recipes
    import_uuid,  \* number of Uuid::new_v4() values drawn by that service
    returned,     \* the batch ids import_recipes has returned to callers
    status_res,   \* the last get_import_status call and its result
    redis,        \* the rate-limit key in Redis: its counter and expiry
    rl            \* the increment_rate_limit calls and the position of each

auth_vars == <<now, ticks, env_secret, uuid_ctr, issued, holder, issues,
               refreshes, users, last>>

orch_vars == <<downstream, deps, service_urls, hc, call, net>>

reg_vars == <<users_email_unique, reg>>

import_vars == <<import_jobs, tasks, import_uuid, returned, status_res>>

rate_vars == <<redis, rl>>

svc_vars == <<reg_vars, import_vars, rate_vars>>

vars == <<auth_vars, env_expiration, orch_vars, svc_vars>>

----------------------------------------------------------------------------
(* Bounds of the model *)

StartTime == 1000000
MaxTicks == 2
MaxIssues == 1
MaxRefreshes == 1
MaxRegisters == 2
MaxImports == 2
MaxFiles == 3
MaxRateCalls == 2
MaxCount == 3

(* Program constants *)

AccessTtl == 3600
RefreshTtl == 2592000
SingleTtl == 86400
HandlerTtl == 86400
Leeway == 60
ExpiresIn == 3600
BearerLen == 7

Unset == "<unset>"
ConfigDefaultSecret == "your-super-secret-jwt-key-change-in-production"
HandlerDefaultSecret == "super_secret_key_for_development"
EnvSecrets == {Unset, "env-secret"}
AttackerSecret == "attacker-secret"

(* Clock advances offered to the model: one second, the codec's leeway and *)
(* the lifetimes the code gives its tokens.                                *)

----------------------------------------------------------------------------
(* Strings that hold either a UUID or free text: Uuid::to_string and       *)
(* Uuid::parse_str convert between a Uuid (a number here) and its string.  *)

UuidToString(u) == [uuid |-> TRUE, v |-> u]
FreeText(n) == [uuid |-> FALSE, v |-> n]
DemoSub == FreeText(0)
ParseStrOk(s) == s.uuid
ParseStr(s) == s.v


----------------------------------------------------------------------------
(* jsonwebtoken: encode and decode *)

Sign(key, alg, payload) == <<key, alg, payload>>

Encode(claims, key) ==
    [segs |-> 3, alg |-> "HS256", payload |-> claims,
     sig |-> Sign(key, "HS256", claims)]

Garbage == [segs |-> 1, alg |-> "HS256", payload |-> [exp |-> 0], sig |-> <<>>]

Ok(v) == [ok |-> TRUE, val |-> v, err |-> ""]
Err(e) == [ok |-> FALSE, val |-> <<>>, err |-> e]

ClaimsFields == {"sub", "username", "email", "exp", "iat", "jti"}

Deserialize(payload) == [f \in ClaimsFields |-> payload[f]]

\* Decode with the signature comparison left out
DecodeUnverified(token, key, t) ==
    IF token.segs # 3 THEN Err("InvalidToken")
    ELSE IF token.alg # "HS256" THEN Err("InvalidAlgorithm")
    ELSE IF ~(ClaimsFields \subseteq DOMAIN token.payload)
         THEN Err("JSON error: missing field")
    ELSE IF token.payload.exp < t - Leeway THEN Err("ExpiredSignature")
    ELSE Ok(Deserialize(token.payload))

Decode(token, key, t) ==
    IF token.segs # 3 THEN Err("InvalidToken")
    ELSE IF token.alg # "HS256" THEN Err("InvalidAlgorithm")
    ELSE IF token.sig # Sign(key, token.alg, token.payload)
         THEN Err("InvalidSignature")
    ELSE IF ~(ClaimsFields \subseteq DOMAIN token.payload)
         THEN Err("JSON error: missing field")
    ELSE IF token.payload.exp < t - Leeway THEN Err("ExpiredSignature")
    ELSE Ok(Deserialize(token.payload))

----------------------------------------------------------------------------
(* Configuration: the signing secret of AuthService and of the handlers *)

ConfigJwtSecret(env) == IF env = Unset THEN ConfigDefaultSecret ELSE env

jwt_secret(env) == IF env = Unset THEN HandlerDefaultSecret ELSE env

\* Config.jwt_expiration: JWT_EXPIRATION parsed as u64, or the default
EnvExpirations == {Unset, "900"}

\* str::parse::<u64> on the decimal strings that occur
ParseU64(s) == CASE s = "3600" -> 3600 [] s = "900" -> 900

ConfigJwtExpiration(env) == ParseU64(IF env = Unset THEN "3600" ELSE env)

----------------------------------------------------------------------------
(* AuthService *)

People == {[id |-> 101, username |-> "alice", email |-> "alice@example.com",
            role |-> "admin"],
           [id |-> 102, username |-> "bob", email |-> "bob@example.com",
            role |-> "user"]}

\* generate_tokens drawing one UUID and giving it to both tokens
generate_tokens_one_jti(secret, t, ctr, user_id, username, email) ==
    LET access_claims ==
            [sub |-> UuidToString(user_id), username |-> username,
             email |-> email, exp |-> t + AccessTtl, iat |-> t,
             jti |-> UuidToString(ctr + 1)]
        refresh_claims ==
            [sub |-> UuidToString(user_id), username |-> username,
             email |-> email, exp |-> t + RefreshTtl, iat |-> t,
             jti |-> UuidToString(ctr + 1)]
    IN Ok([access_token |-> Encode(access_claims, secret),
           refresh_token |-> Encode(refresh_claims, secret),
           expires_in |-> ExpiresIn, token_type |-> "Bearer"])

\* generate_tokens: ctr is the number of UUIDs drawn before the call
generate_tokens(secret, t, ctr, user_id, username, email) ==
    LET access_claims ==
            [sub |-> UuidToString(user_id), username |-> username,
             email |-> email, exp |-> t + AccessTtl, iat |-> t,
             jti |-> UuidToString(ctr + 1)]
        refresh_claims ==
            [sub |-> UuidToString(user_id), username |-> username,
             email |-> email, exp |-> t + RefreshTtl, iat |-> t,
             jti |-> UuidToString(ctr + 2)]
    IN Ok([access_token |-> Encode(access_claims, secret),
           refresh_token |-> Encode(refresh_claims, secret),
           expires_in |-> ExpiresIn, token_type |-> "Bearer"])

\* generate_token: the single-token variant, whose claims carry a role
generate_token(secret, t, user_id, username, role) ==
    LET claims == [sub |-> UuidToString(user_id), exp |-> t + SingleTtl,
                   iat |-> t, username |-> username, role |-> role]
    IN Ok(Encode(claims, secret))

\* validate_token without its own comparison of exp with the clock
validate_token_codec_only(secret, t, token) ==
    LET token_data == Decode(token, secret, t)
    IN IF ~token_data.ok THEN Err("Invalid token: " \o token_data.err)
       ELSE Ok(token_data.val)

\* validate_token comparing exp with the clock by <= instead of <
validate_token_expired_at_exp(secret, t, token) ==
    LET token_data == Decode(token, secret, t)
    IN IF ~token_data.ok THEN Err("Invalid token: " \o token_data.err)
       ELSE IF token_data.val.exp <= t THEN Err("Token expired")
       ELSE Ok(token_data.val)

validate_token(secret, t, token) ==
    LET token_data == Decode(token, secret, t)
    IN IF ~token_data.ok THEN Err("Invalid token: " \o token_data.err)
       ELSE IF token_data.val.exp < t THEN Err("Token expired")
       ELSE Ok(token_data.val)

verify_token(secret, t, token) == Decode(token, secret, t)

\* refresh_access_token checking the token with the codec alone
refresh_access_token_codec_only(secret, t, ctr, refresh_token) ==
    LET claims == verify_token(secret, t, refresh_token)
    IN IF ~claims.ok THEN claims
       ELSE IF ~ParseStrOk(claims.val.sub) THEN Err("Invalid user ID in token")
       ELSE generate_tokens(secret, t, ctr, ParseStr(claims.val.sub),
                            claims.val.username, claims.val.email)

refresh_access_token(secret, t, ctr, refresh_token) ==
    LET claims == validate_token(secret, t, refresh_token)
    IN IF ~claims.ok THEN claims
       ELSE IF ~ParseStrOk(claims.val.sub) THEN Err("Invalid user ID in token")
       ELSE generate_tokens(secret, t, ctr, ParseStr(claims.val.sub),
                            claims.val.username, claims.val.email)

----------------------------------------------------------------------------
(* services.rs, ServiceOrchestrator: the registry of downstream services,  *)
(* and what the HTTP client (crate reqwest, Client::new(): no timeout is   *)
(* set) makes of a downstream's behaviour.                                 *)

Services == {"nutrition", "analytics", "recipe-import"}

\* ServiceOrchestrator::new: one base URL per service (the defaults)
ServiceOrchestratorNew ==
    [s \in Services |->
        CASE s = "nutrition" -> "http://nutrition-service:8081"
          [] s = "analytics" -> "http://analytics-service:8082"
          [] s = "recipe-import" -> "http://recipe-import-service:8083"]

\* A downstream answers with a status and a body that is JSON or not,
\* refuses the connection, or accepts it and never responds
Answer(status, is_json) == [kind |-> "answer", status |-> status, json |-> is_json]
Refused == [kind |-> "refused", status |-> 0, json |-> FALSE]
Hung == [kind |-> "hung", status |-> 0, json |-> FALSE]

Behaviours ==
    {Answer(200, TRUE), Answer(204, FALSE), Answer(500, TRUE),
     Answer(404, FALSE), Refused, Hung}

\* RequestBuilder::send().await, once it completes: a response whatever
\* its status, or a transport error.  It completes only if Responds.
Responds(b) == b.kind # "hung"

send(b) ==
    IF b.kind = "answer" THEN Ok([status |-> b.status, json |-> b.json])
    ELSE Err("error sending request")

\* StatusCode::is_success
is_success(status) == status >= 200 /\ status <= 299

JsonValue == "json value"

\* Response::json().await
json(response) ==
    IF response.json THEN Ok(JsonValue)
    ELSE Err("error decoding response body")

\* The probe's verdict with the status left unread
is_healthy_any_response(sent) == sent.ok

\* health_check, per service: .map(|resp| resp.status().is_success())
\*                            .unwrap_or(false)
is_healthy(sent) ==
    IF sent.ok THEN is_success(sent.val.status) ELSE FALSE

EmptyMap == <<>>

\* HashMap::insert
Insert(m, k, v) ==
    [x \in DOMAIN m \cup {k} |-> IF x = k THEN v ELSE m[x]]

\* The orders in which HashMap::iter may yield the keys of a map
Orders(m) ==
    {f \in [1..Cardinality(DOMAIN m) -> DOMAIN m] :
        \A a, b \in DOMAIN f : a # b => f[a] # f[b]}

\* urls.get(key).ok_or_else(|| anyhow!("... service URL not found"))
lookup(urls, key) ==
    IF key \in DOMAIN urls THEN Ok(urls[key])
    ELSE Err("service URL not found")

None == [some |-> FALSE]
Some(v) == [some |-> TRUE, v |-> v]

\* client.get(&url), or client.post(&url).json(&body) if a body is given
build_request(url, body) ==
    [method |-> IF body.some THEN "POST" ELSE "GET", url |-> url,
     body |-> body]

----------------------------------------------------------------------------
(* main.rs, health_check: the handler of GET /health *)

NoBody == [status |-> "", services |-> EmptyMap]

\* The handler's return: Ok(Json(response)), or Err(503) which has no body
health_response(overall_healthy, services) ==
    IF overall_healthy
    THEN [status |-> 200,
          body |-> [status |-> "healthy", services |-> services]]
    ELSE [status |-> 503, body |-> NoBody]

HcIdle ==
    [pc |-> "idle", services |-> EmptyMap, overall_healthy |-> TRUE,
     order |-> <<>>, i |-> 0, health_status |-> EmptyMap,
     resp |-> [status |-> 0, body |-> NoBody]]

CallIdle ==
    [pc |-> "idle", service |-> "", endpoint |-> "", body |-> None,
     url |-> "", request |-> build_request("", None),
     response |-> [status |-> 0, json |-> FALSE], res |-> Err("")]

\* No operation of the orchestrator is in progress; every dependency and
\* every downstream answers
OrchestratorAtRest ==
    /\ downstream = [s \in Services |-> Answer(200, TRUE)]
    /\ deps = [db |-> TRUE, redis |-> TRUE]
    /\ service_urls = ServiceOrchestratorNew
    /\ hc = HcIdle
    /\ call = CallIdle
    /\ net = {}

----------------------------------------------------------------------------
(* The concurrent handlers: register (handlers/mod.rs), the recipe-import *)
(* service's jobs (recipe-import-service/src/main.rs) and the rate-limit  *)
(* counter (cache.rs).  Their state before any request has arrived.        *)

RegIds == 1..MaxRegisters

NoPayload == [username |-> "", email |-> "", password |-> ""]

\* A register request that has not arrived
RegIdle ==
    [pc |-> "idle", payload |-> NoPayload, user_id |-> 0, salt |-> 0,
     status |-> 0, token |-> Garbage]

\* The response of get_import_status before any call of it
NoStatusCall == [batch_id |-> 0, res |-> Err(0)]

RateCallIds == 1..MaxRateCalls

\* An increment_rate_limit call that has not been made
RlIdle == [pc |-> "idle", window |-> 0, count |-> 0, res |-> Err("")]

\* The key does not exist
NoKey == [count |-> 0, expire_at |-> None]

ServicesAtRest ==
    /\ users_email_unique = TRUE
    /\ reg = [i \in RegIds |-> RegIdle]
    /\ import_jobs = EmptyMap
    /\ tasks = EmptyMap
    /\ import_uuid = 0
    /\ returned = {}
    /\ status_res = NoStatusCall
    /\ redis = NoKey
    /\ rl = [i \in RateCallIds |-> RlIdle]

----------------------------------------------------------------------------
(* What a caller can present: the tokens it was given, those tokens        *)
(* altered or re-signed without the server's secret, and a string that is  *)
(* no token at all.                                                        *)

Resigned(t) == [t EXCEPT !.sig = Sign(AttackerSecret, t.alg, t.payload)]
Extended(t) == [t EXCEPT !.payload.exp = @ + RefreshTtl]
OtherAlg(t) == [t EXCEPT !.alg = "HS384",
                         !.sig = Sign(AttackerSecret, "HS384", t.payload)]

Tampered(t) == {Resigned(t), Extended(t), OtherAlg(t)}

Presentable == issued \cup UNION {Tampered(t) : t \in issued} \cup {Garbage}

----------------------------------------------------------------------------
(* Actions of the token service *)

Idle == [op |-> "none"]

\* The inputs an issuing operation was given ("" for one it does not take)
Inputs(op, sub, username, email, role) ==
    [op |-> op, sub |-> sub, username |-> username, email |-> email,
     role |-> role]

Nobody == Inputs("none", DemoSub, "", "", "")

AuthTickSteps == {1, Leeway, Leeway + 1, AccessTtl, RefreshTtl}

Tick ==
    /\ last = Idle
    /\ ticks < MaxTicks
    /\ \E d \in AuthTickSteps : now' = now + d
    /\ ticks' = ticks + 1
    /\ UNCHANGED <<env_expiration, orch_vars, svc_vars>>
    /\ UNCHANGED <<env_secret, uuid_ctr, issued, holder, issues, refreshes, users, last>>

GenerateTokens ==
    /\ last = Idle
    /\ issues < MaxIssues
    /\ \E p \in People :
        LET r == generate_tokens(ConfigJwtSecret(env_secret), now, uuid_ctr,
                                 p.id, p.username, p.email)
        IN /\ last' = [op |-> "generate_tokens", at |-> now, who |-> p, res |-> r]
           /\ issued' = {r.val.access_token, r.val.refresh_token}
           /\ holder' = Inputs("generate_tokens", UuidToString(p.id),
                               p.username, p.email, "")
    /\ uuid_ctr' = uuid_ctr + 2
    /\ issues' = issues + 1
    /\ UNCHANGED <<env_expiration, orch_vars, svc_vars>>
    /\ UNCHANGED <<now, ticks, env_secret, refreshes, users>>

GenerateToken ==
    /\ last = Idle
    /\ issues < MaxIssues
    /\ \E p \in People :
        LET r == generate_token(ConfigJwtSecret(env_secret), now,
                                p.id, p.username, p.role)
        IN /\ last' = [op |-> "generate_token", at |-> now, who |-> p, res |-> r]
           /\ issued' = {r.val}
           /\ holder' = Inputs("generate_token", UuidToString(p.id),
                               p.username, "", p.role)
    /\ issues' = issues + 1
    /\ UNCHANGED <<env_expiration, orch_vars, svc_vars>>
    /\ UNCHANGED <<now, ticks, env_secret, uuid_ctr, refreshes, users>>

ValidateToken ==
    /\ last = Idle
    /\ \E tok \in Presentable :
        last' = [op |-> "validate_token", at |-> now, token |-> tok,
                 res |-> validate_token(ConfigJwtSecret(env_secret), now, tok)]
    /\ UNCHANGED <<env_expiration, orch_vars, svc_vars>>
    /\ UNCHANGED <<now, ticks, env_secret, uuid_ctr, issued, holder, issues, refreshes,
                   users>>

VerifyToken ==
    /\ last = Idle
    /\ \E tok \in Presentable :
        last' = [op |-> "verify_token", at |-> now, token |-> tok,
                 res |-> verify_token(ConfigJwtSecret(env_secret), now, tok)]
    /\ UNCHANGED <<env_expiration, orch_vars, svc_vars>>
    /\ UNCHANGED <<now, ticks, env_secret, uuid_ctr, issued, holder, issues, refreshes,
                   users>>

RefreshAccessToken ==
    /\ last = Idle
    /\ refreshes < MaxRefreshes
    /\ \E tok \in Presentable :
        LET r == refresh_access_token(ConfigJwtSecret(env_secret), now,
                                      uuid_ctr, tok)
        IN /\ last' = [op |-> "refresh_access_token", at |-> now,
                       token |-> tok, res |-> r]
           /\ issued' = IF r.ok THEN {r.val.access_token, r.val.refresh_token}
                        ELSE issued
           /\ holder' = IF r.ok
                        THEN Inputs("refresh_access_token", tok.payload.sub,
                                    tok.payload.username, tok.payload.email, "")
                        ELSE holder
           /\ uuid_ctr' = IF r.ok THEN uuid_ctr + 2 ELSE uuid_ctr
           /\ refreshes' = IF r.ok THEN refreshes + 1 ELSE refreshes
    /\ UNCHANGED <<env_expiration, orch_vars, svc_vars>>
    /\ UNCHANGED <<now, ticks, env_secret, issues, users>>

\* The caller takes the result of the call
Return ==
    /\ last # Idle
    /\ last' = Idle
    /\ UNCHANGED <<env_expiration, orch_vars, svc_vars>>
    /\ UNCHANGED <<now, ticks, env_secret, uuid_ctr, issued, holder, issues, refreshes,
                   users>>

InitAuth ==
    /\ now = StartTime
    /\ ticks = 0
    /\ env_secret \in EnvSecrets
    /\ uuid_ctr = 0
    /\ issued = {}
    /\ holder = Nobody
    /\ issues = 0
    /\ refreshes = 0
    /\ users = {}
    /\ last = Idle
    /\ env_expiration = Unset
    /\ OrchestratorAtRest
    /\ ServicesAtRest

NextAuth ==
    \/ Tick
    \/ GenerateTokens
    \/ GenerateToken
    \/ ValidateToken
    \/ VerifyToken
    \/ RefreshAccessToken
    \/ Return

SpecAuth == InitAuth /\ [][NextAuth]_vars

----------------------------------------------------------------------------
(* bcrypt: hash draws a salt; verify recomputes the digest under the salt  *)
(* stored in the hash.                                                     *)

Salts == {1, 2}

Digest(salt, password) == <<salt, password>>

\* The key bcrypt hashes: the password's bytes and a terminating zero byte
\* (Nul stands for it; no password of the model contains it), cut to the
\* 72 bytes the algorithm takes
BcryptKeyLen == 72
Nul == "#"

bcrypt_key(password) ==
    LET v == password \o Nul
    IN IF Len(v) > BcryptKeyLen THEN SubSeq(v, 1, BcryptKeyLen) ELSE v

hash(password, salt) ==
    [salt |-> salt, digest |-> Digest(salt, bcrypt_key(password))]

verify(password, h) == h.digest = Digest(h.salt, bcrypt_key(password))

\* AuthService::hash_password
hash_password(password, salt) == Ok(hash(password, salt))

\* verify_password taking any Ok of the library for a match
verify_password_any_ok(password, h) == Ok(TRUE)

\* AuthService::verify_password
verify_password(password, h) == Ok(verify(password, h))

----------------------------------------------------------------------------
(* handlers/mod.rs, auth_handlers: register and login.  fail_at names the  *)
(* database call that fails (0: none).                                     *)

HandlerToken(env, t, sub, email) ==
    Encode([sub |-> sub, email |-> email, exp |-> t + HandlerTtl],
           jwt_secret(env))

RowsByEmail(rows, email) == {r \in rows : r.email = email}

\* register: the response and the users table after the call
register(env, t, ctr, rows, payload, salt, fail_at) ==
    IF fail_at = 1 THEN [status |-> 500, token |-> Garbage, rows |-> rows]
    ELSE IF RowsByEmail(rows, payload.email) # {}
         THEN [status |-> 409, token |-> Garbage, rows |-> rows]
    ELSE IF fail_at = 2 THEN [status |-> 500, token |-> Garbage, rows |-> rows]
    ELSE LET user_id == ctr + 1
             row == [id |-> user_id, username |-> payload.username,
                     email |-> payload.email,
                     password_hash |-> hash(payload.password, salt)]
             inserted == rows \cup {row}
         IN IF fail_at = 3
            THEN [status |-> 500, token |-> Garbage, rows |-> inserted]
            ELSE [status |-> 200,
                  token |-> HandlerToken(env, t, UuidToString(row.id), row.email),
                  rows |-> inserted]

DemoEmail == "demo@mealprep.com"
DemoPassword == "demopass"

\* login: the response (the users table is only read)
login(env, t, rows, payload, fail_at) ==
    IF payload.email = DemoEmail /\ payload.password = DemoPassword
    THEN [status |-> 200, token |-> HandlerToken(env, t, DemoSub, DemoEmail)]
    ELSE IF fail_at = 1 THEN [status |-> 500, token |-> Garbage]
    ELSE IF RowsByEmail(rows, payload.email) = {}
         THEN [status |-> 401, token |-> Garbage]
    ELSE LET row == CHOOSE r \in RowsByEmail(rows, payload.email) : TRUE
         IN IF ~verify(payload.password, row.password_hash)
            THEN [status |-> 401, token |-> Garbage]
            ELSE [status |-> 200,
                  token |-> HandlerToken(env, t, UuidToString(row.id), row.email)]

----------------------------------------------------------------------------
(* main.rs, create_router: the routes, and middleware_layer.rs,            *)
(* auth_middleware, layered on the protected routes only.                  *)

\* The public routes with the refresh route forgotten
PublicRoutesWithoutRefresh ==
    {<<"GET", "/health">>, <<"GET", "/metrics">>,
     <<"POST", "/api/auth/register">>, <<"POST", "/api/auth/login">>}

PublicRoutes ==
    {<<"GET", "/health">>, <<"GET", "/metrics">>,
     <<"POST", "/api/auth/register">>, <<"POST", "/api/auth/login">>,
     <<"POST", "/api/auth/refresh">>}

ProtectedRoutes ==
    {<<"GET", "/api/users/profile">>, <<"PUT", "/api/users/profile">>,
     <<"GET", "/api/users/preferences">>, <<"PUT", "/api/users/preferences">>,
     <<"GET", "/api/meals">>, <<"POST", "/api/meals">>,
     <<"GET", "/api/meals/:id">>, <<"PUT", "/api/meals/:id">>,
     <<"DELETE", "/api/meals/:id">>, <<"GET", "/api/meals/search">>,
     <<"GET", "/api/meals/recommendations">>,
     <<"GET", "/api/meal-plans">>, <<"POST", "/api/meal-plans">>,
     <<"GET", "/api/meal-plans/:id">>, <<"PUT", "/api/meal-plans/:id">>,
     <<"POST", "/api/meal-plans/generate">>,
     <<"POST", "/api/nutrition/log">>, <<"GET", "/api/nutrition/daily">>,
     <<"GET", "/api/nutrition/weekly">>, <<"GET", "/api/nutrition/goals">>,
     <<"PUT", "/api/nutrition/goals">>, <<"GET", "/api/nutrition/analysis">>,
     <<"GET", "/api/recipes">>, <<"POST", "/api/recipes">>,
     <<"GET", "/api/recipes/:id">>, <<"POST", "/api/recipes/:id/scale">>,
     <<"POST", "/api/recipes/import">>,
     <<"GET", "/api/shopping-lists">>, <<"POST", "/api/shopping-lists">>,
     <<"GET", "/api/shopping-lists/:id">>,
     <<"POST", "/api/shopping-lists/:id/items">>,
     <<"POST", "/api/shopping-lists/:id/optimize">>,
     <<"GET", "/api/analytics/dashboard">>, <<"GET", "/api/analytics/trends">>,
     <<"GET", "/api/analytics/predictions">>,
     <<"GET", "/api/analytics/insights">>,
     <<"GET", "/api/inventory">>, <<"POST", "/api/inventory/items">>,
     <<"PUT", "/api/inventory/items/:id">>, <<"GET", "/api/inventory/expiring">>}

WebsocketRoutes == {<<"GET", "/ws">>}

AllRoutes == PublicRoutes \cup ProtectedRoutes \cup WebsocketRoutes

NoHeader == [present |-> FALSE, scheme |-> "", token |-> Garbage]
Header(scheme, token) == [present |-> TRUE, scheme |-> scheme, token |-> token]

NoClaims == {}

\* A request as it enters the router: nothing is attached to it yet
Request(method, path, authorization) ==
    [method |-> method, path |-> path, authorization |-> authorization,
     extensions |-> NoClaims]

\* next.run(request): the handler runs and sees the request it is given
Run(request) ==
    [status |-> IF <<request.method, request.path>> \in WebsocketRoutes
                THEN 501 ELSE 200,
     handler |-> TRUE, seen |-> request.extensions]

Reject(status) == [status |-> status, handler |-> FALSE, seen |-> NoClaims]

auth_middleware(secret, t, request) == Run(request)

\* The router: which layer and handler a request reaches
Dispatch(secret, t, request) ==
    LET route == <<request.method, request.path>>
    IN IF route \in PublicRoutes THEN Run(request)
       ELSE IF route \in ProtectedRoutes
            THEN auth_middleware(secret, t, request)
       ELSE IF route \in WebsocketRoutes THEN Run(request)
       ELSE IF \E r \in AllRoutes : r[2] = request.path THEN Reject(405)
       ELSE Reject(404)

----------------------------------------------------------------------------
(* Actions of the gateway *)

RegisterPayloads ==
    {[username |-> p.username, email |-> p.email, password |-> "Passw0rd"] :
        p \in People}

LoginPayloads ==
    {[email |-> e, password |-> pw] :
        e \in {p.email : p \in People} \cup {DemoEmail},
        pw \in {"Passw0rd", DemoPassword}}

FailPoints == 0..3

GatewayTickSteps == {1, Leeway, AccessTtl, HandlerTtl}

GatewayTick ==
    /\ last = Idle
    /\ ticks < MaxTicks
    /\ \E d \in GatewayTickSteps : now' = now + d
    /\ ticks' = ticks + 1
    /\ UNCHANGED <<env_expiration, orch_vars, svc_vars>>
    /\ UNCHANGED <<env_secret, uuid_ctr, issued, holder, issues, refreshes, users, last>>

\* POST /api/auth/register: a public route, so the router runs the handler
Register ==
    /\ last = Idle
    /\ issues < MaxIssues
    /\ \E payload \in RegisterPayloads, salt \in Salts, fail_at \in FailPoints :
        LET r == register(env_secret, now, uuid_ctr, users, payload, salt, fail_at)
        IN /\ last' = [op |-> "register", at |-> now, payload |-> payload,
                       before |-> users, res |-> r]
           /\ users' = r.rows
           /\ uuid_ctr' = IF r.rows # users THEN uuid_ctr + 1 ELSE uuid_ctr
           /\ issued' = IF r.status = 200 THEN {r.token} ELSE issued
           /\ holder' = IF r.status = 200
                        THEN Inputs("register", UuidToString(uuid_ctr + 1),
                                    payload.username, payload.email, "")
                        ELSE holder
           /\ issues' = IF r.rows # users THEN issues + 1 ELSE issues
    /\ UNCHANGED <<env_expiration, orch_vars, svc_vars>>
    /\ UNCHANGED <<now, ticks, env_secret, refreshes>>

\* POST /api/auth/login: a public route, so the router runs the handler
Login ==
    /\ last = Idle
    /\ \E payload \in LoginPayloads, fail_at \in 0..1 :
        LET r == login(env_secret, now, users, payload, fail_at)
        IN /\ last' = [op |-> "login", at |-> now, payload |-> payload, res |-> r]
           /\ issued' = IF r.status = 200 THEN {r.token} ELSE issued
           /\ holder' = IF r.status = 200
                        THEN Inputs("login", r.token.payload.sub, "",
                                    payload.email, "")
                        ELSE holder
    /\ UNCHANGED <<env_expiration, orch_vars, svc_vars>>
    /\ UNCHANGED <<now, ticks, env_secret, uuid_ctr, issues, refreshes, users>>

\* The requests offered to the router: every public route, two protected
\* routes, a known path with another method and an unknown path; with no
\* Authorization header, with a token the caller holds (as Bearer and as
\* Basic), with that token re-signed under another key, with its expiry
\* altered, and with a string that is no token.  HandleRequest is the
\* routing of a request down to the handler's invocation; what register and
\* login then do is Register and Login.
RequestRoutes ==
    {<<"GET", "/health">>, <<"GET", "/metrics">>,
     <<"POST", "/api/auth/register">>, <<"POST", "/api/auth/login">>,
     <<"POST", "/api/auth/refresh">>, <<"GET", "/ws">>,
     <<"GET", "/api/users/profile">>, <<"DELETE", "/api/meals/:id">>,
     <<"POST", "/health">>, <<"GET", "/api/unknown">>}

RequestHeaders ==
    {NoHeader, Header("Bearer ", Garbage)}
    \cup {Header("Bearer ", tok) : tok \in issued}
    \cup {Header("Bearer ", Resigned(tok)) : tok \in issued}
    \cup {Header("Bearer ", Extended(tok)) : tok \in issued}
    \cup {Header("Basic ", tok) : tok \in issued}

HandleRequest ==
    /\ last = Idle
    /\ \E route \in RequestRoutes, h \in RequestHeaders :
        LET request == Request(route[1], route[2], h)
        IN last' = [op |-> "request", at |-> now, request |-> request,
                    resp |-> Dispatch(ConfigJwtSecret(env_secret), now, request)]
    /\ UNCHANGED <<env_expiration, orch_vars, svc_vars>>
    /\ UNCHANGED <<now, ticks, env_secret, uuid_ctr, issued, holder, issues, refreshes,
                   users>>

NextGateway ==
    \/ GatewayTick
    \/ Register
    \/ Login
    \/ GenerateTokens
    \/ HandleRequest
    \/ Return

SpecGateway == InitAuth /\ [][NextGateway]_vars

----------------------------------------------------------------------------
(* Bearer-header parsing.  A header value is a sequence of characters; the *)
(* prefix "Bearer " is seven ASCII characters, so the byte slice [7..] is  *)
(* the subsequence from the eighth character on.                           *)

BearerPrefix == <<"B", "e", "a", "r", "e", "r", " ">>

starts_with(s, prefix) ==
    /\ Len(s) >= Len(prefix)
    /\ SubSeq(s, 1, Len(prefix)) = prefix

\* extract_bearer_token slicing one character early
extract_bearer_token_slice6(auth_header) ==
    IF ~starts_with(auth_header, BearerPrefix)
    THEN Err("Invalid authorization header format")
    ELSE Ok(SubSeq(auth_header, BearerLen, Len(auth_header)))

extract_bearer_token(auth_header) ==
    IF ~starts_with(auth_header, BearerPrefix)
    THEN Err("Invalid authorization header format")
    ELSE Ok(SubSeq(auth_header, BearerLen + 1, Len(auth_header)))

\* Option<&str>: ok is Some, ~ok is None
extract_token_from_header(auth_header) ==
    IF starts_with(auth_header, BearerPrefix)
    THEN Ok(SubSeq(auth_header, BearerLen + 1, Len(auth_header)))
    ELSE Err("")

MaxRestLen == 2

RestAlphabet == {"a", "B", " "}

Rests == UNION {[1..n -> RestAlphabet] : n \in 0..MaxRestLen}

HeaderPrefixes ==
    {BearerPrefix,
     <<"b", "e", "a", "r", "e", "r", " ">>,
     <<"B", "E", "A", "R", "E", "R", " ">>,
     <<"B", "a", "s", "i", "c", " ">>,
     <<"B", "e", "a", "r", "e", "r">>,
     <<" ", "B", "e", "a", "r", "e", "r", " ">>,
     <<"B", "e", "a", "r", "e">>,
     <<>>}

HeaderValues == {p \o r : p \in HeaderPrefixes, r \in Rests}

ExtractBearerToken ==
    /\ last = Idle
    /\ \E h \in HeaderValues :
        last' = [op |-> "extract_bearer_token", header |-> h,
                 res |-> extract_bearer_token(h)]
    /\ UNCHANGED <<env_expiration, orch_vars, svc_vars>>
    /\ UNCHANGED <<now, ticks, env_secret, uuid_ctr, issued, holder, issues, refreshes,
                   users>>

ExtractTokenFromHeader ==
    /\ last = Idle
    /\ \E h \in HeaderValues :
        last' = [op |-> "extract_token_from_header", header |-> h,
                 res |-> extract_token_from_header(h)]
    /\ UNCHANGED <<env_expiration, orch_vars, svc_vars>>
    /\ UNCHANGED <<now, ticks, env_secret, uuid_ctr, issued, holder, issues, refreshes,
                   users>>

NextBearer ==
    \/ ExtractBearerToken
    \/ ExtractTokenFromHeader
    \/ Return

SpecBearer == InitAuth /\ [][NextBearer]_vars

----------------------------------------------------------------------------
(* Actions of the orchestrator.  Each await of the source is a step: the   *)
(* task proceeds past it only once the awaited future completes.           *)

\* GET /health arrives and the handler starts
HealthRequest ==
    /\ hc.pc = "idle" /\ call.pc = "idle"
    /\ hc' = [HcIdle EXCEPT !.pc = "db"]
    /\ net' = {}
    /\ UNCHANGED <<auth_vars, env_expiration, svc_vars, downstream, deps,
                   service_urls,
                   call>>

\* match state.db.health_check().await
HealthDb ==
    /\ hc.pc = "db"
    /\ hc' = [hc EXCEPT
                !.services = Insert(@, "database",
                    IF deps.db THEN "connected" ELSE "disconnected"),
                !.overall_healthy = IF deps.db THEN @ ELSE FALSE,
                !.pc = "cache"]
    /\ UNCHANGED <<auth_vars, env_expiration, svc_vars, downstream, deps,
                   service_urls,
                   call, net>>

\* match state.cache.health_check().await
HealthCache ==
    /\ hc.pc = "cache"
    /\ hc' = [hc EXCEPT
                !.services = Insert(@, "redis",
                    IF deps.redis THEN "connected" ELSE "disconnected"),
                !.overall_healthy = IF deps.redis THEN @ ELSE FALSE,
                !.pc = "services"]
    /\ UNCHANGED <<auth_vars, env_expiration, svc_vars, downstream, deps,
                   service_urls,
                   call, net>>

\* ServiceOrchestrator::health_check is entered: an empty map, the read
\* lock, and the iteration over the registry in the HashMap's order
HealthCheckBegin ==
    /\ hc.pc = "services"
    /\ \E order \in Orders(service_urls) :
        hc' = [hc EXCEPT !.order = order, !.i = 1,
                         !.health_status = EmptyMap,
                         !.pc = IF Len(order) = 0 THEN "joined" ELSE "send"]
    /\ UNCHANGED <<auth_vars, env_expiration, svc_vars, downstream, deps,
                   service_urls,
                   call, net>>

\* self.client.get(&health_url).send(): the probe of the current service
ProbeSend ==
    /\ hc.pc = "send"
    /\ LET service == hc.order[hc.i]
           health_url == service_urls[service] \o "/health"
       IN net' = net \cup {[to |-> service, req |-> build_request(health_url, None)]}
    /\ hc' = [hc EXCEPT !.pc = "await"]
    /\ UNCHANGED <<auth_vars, env_expiration, svc_vars, downstream, deps,
                   service_urls,
                   call>>

\* .await of the probe, then health_status.insert and the next iteration
ProbeAwait ==
    /\ hc.pc = "await"
    /\ LET service == hc.order[hc.i]
       IN /\ Responds(downstream[service])
          /\ hc' = [hc EXCEPT
                      !.health_status =
                          Insert(@, service, is_healthy(send(downstream[service]))),
                      !.i = @ + 1,
                      !.pc = IF hc.i = Len(hc.order) THEN "joined" ELSE "send"]
    /\ UNCHANGED <<auth_vars, env_expiration, svc_vars, downstream, deps,
                   service_urls,
                   call, net>>

\* health_check has returned Ok(health_status): the handler copies it
HealthCollect ==
    /\ hc.pc = "joined"
    /\ hc' = [hc EXCEPT
                !.services =
                    [x \in DOMAIN hc.services \cup DOMAIN hc.health_status |->
                        IF x \in DOMAIN hc.health_status
                        THEN IF hc.health_status[x] THEN "healthy"
                             ELSE "unhealthy"
                        ELSE hc.services[x]],
                !.pc = "respond"]
    /\ UNCHANGED <<auth_vars, env_expiration, svc_vars, downstream, deps,
                   service_urls,
                   call, net>>

\* The handler returns
HealthRespond ==
    /\ hc.pc = "respond"
    /\ hc' = [hc EXCEPT
                !.resp = health_response(hc.overall_healthy, hc.services),
                !.pc = "done"]
    /\ UNCHANGED <<auth_vars, env_expiration, svc_vars, downstream, deps,
                   service_urls,
                   call, net>>

\* The client has the response
HealthReturn ==
    /\ hc.pc = "done"
    /\ hc' = HcIdle
    /\ net' = {}
    /\ UNCHANGED <<auth_vars, env_expiration, svc_vars, downstream, deps,
                   service_urls,
                   call>>

\* call_nutrition_service, call_analytics_service and
\* call_recipe_import_service differ only in the key they look up; service
\* is that key.  The caller gives an endpoint and an optional JSON body.
Endpoints == {"/analyze"}
Bodies == {None, Some(JsonValue)}

CallStart ==
    /\ hc.pc = "idle" /\ call.pc = "idle"
    /\ \E service \in Services, endpoint \in Endpoints, body \in Bodies :
        call' = [CallIdle EXCEPT !.pc = "lookup", !.service = service,
                                 !.endpoint = endpoint, !.body = body]
    /\ net' = {}
    /\ UNCHANGED <<auth_vars, env_expiration, svc_vars, downstream, deps,
                   service_urls,
                   hc>>

\* The read lock, urls.get(key) with ?, and format!("{}{}", base_url, endpoint)
CallLookup ==
    /\ call.pc = "lookup"
    /\ LET base_url == lookup(service_urls, call.service)
       IN call' = IF ~base_url.ok
                  THEN [call EXCEPT !.res = base_url, !.pc = "done"]
                  ELSE [call EXCEPT !.url = base_url.val \o call.endpoint,
                                    !.pc = "build"]
    /\ UNCHANGED <<auth_vars, env_expiration, svc_vars, downstream, deps,
                   service_urls,
                   hc, net>>

CallBuild ==
    /\ call.pc = "build"
    /\ call' = [call EXCEPT !.request = build_request(call.url, call.body),
                            !.pc = "send"]
    /\ UNCHANGED <<auth_vars, env_expiration, svc_vars, downstream, deps,
                   service_urls,
                   hc, net>>

\* request.send()
CallSend ==
    /\ call.pc = "send"
    /\ net' = net \cup {[to |-> call.service, req |-> call.request]}
    /\ call' = [call EXCEPT !.pc = "await"]
    /\ UNCHANGED <<auth_vars, env_expiration, svc_vars, downstream, deps,
                   service_urls,
                   hc>>

\* .await? of the send
CallAwait ==
    /\ call.pc = "await"
    /\ Responds(downstream[call.service])
    /\ LET response == send(downstream[call.service])
       IN call' = IF ~response.ok
                  THEN [call EXCEPT !.res = response, !.pc = "done"]
                  ELSE [call EXCEPT !.response = response.val, !.pc = "json"]
    /\ UNCHANGED <<auth_vars, env_expiration, svc_vars, downstream, deps,
                   service_urls,
                   hc, net>>

\* response.json().await? and Ok(result)
CallJson ==
    /\ call.pc = "json"
    /\ call' = [call EXCEPT !.res = json(call.response), !.pc = "done"]
    /\ UNCHANGED <<auth_vars, env_expiration, svc_vars, downstream, deps,
                   service_urls,
                   hc, net>>

\* The caller has the result
CallReturn ==
    /\ call.pc = "done"
    /\ call' = CallIdle
    /\ net' = {}
    /\ UNCHANGED <<auth_vars, env_expiration, svc_vars, downstream, deps,
                   service_urls,
                   hc>>

InitOrch ==
    /\ now = StartTime
    /\ ticks = 0
    /\ env_secret = Unset
    /\ uuid_ctr = 0
    /\ issued = {}
    /\ holder = Nobody
    /\ issues = 0
    /\ refreshes = 0
    /\ users = {}
    /\ last = Idle
    /\ env_expiration = Unset
    /\ downstream \in [Services -> Behaviours]
    /\ deps \in [db : BOOLEAN, redis : BOOLEAN]
    /\ service_urls = ServiceOrchestratorNew
    /\ hc = HcIdle
    /\ call = CallIdle
    /\ net = {}
    /\ ServicesAtRest

HealthProgress ==
    \/ HealthDb
    \/ HealthCache
    \/ HealthCheckBegin
    \/ ProbeSend
    \/ ProbeAwait
    \/ HealthCollect
    \/ HealthRespond

CallProgress ==
    \/ CallLookup
    \/ CallBuild
    \/ CallSend
    \/ CallAwait
    \/ CallJson

NextOrch ==
    \/ HealthRequest
    \/ HealthDb
    \/ HealthCache
    \/ HealthCheckBegin
    \/ ProbeSend
    \/ ProbeAwait
    \/ HealthCollect
    \/ HealthRespond
    \/ HealthReturn
    \/ CallStart
    \/ CallLookup
    \/ CallBuild
    \/ CallSend
    \/ CallAwait
    \/ CallJson
    \/ CallReturn

SpecOrch == InitOrch /\ [][NextOrch]_vars

\* The runtime polls a task whose awaited future has completed
FairSpecOrch ==
    SpecOrch /\ WF_vars(HealthProgress) /\ WF_vars(CallProgress)

----------------------------------------------------------------------------
(* The issuing operations of the gateway under each configuration *)

InitTtl ==
    /\ now = StartTime
    /\ ticks = 0
    /\ env_secret \in EnvSecrets
    /\ uuid_ctr = 0
    /\ issued = {}
    /\ holder = Nobody
    /\ issues = 0
    /\ refreshes = 0
    /\ users = {}
    /\ last = Idle
    /\ env_expiration \in EnvExpirations
    /\ OrchestratorAtRest
    /\ ServicesAtRest

NextTtl ==
    \/ GatewayTick
    \/ GenerateTokens
    \/ GenerateToken
    \/ Register
    \/ Login
    \/ Return

SpecTtl == InitTtl /\ [][NextTtl]_vars

----------------------------------------------------------------------------
(* auth.rs, validate_password.  A password is a string; EAcute stands for  *)
(* the letter e with an acute accent (U+00E9), which is not ASCII and      *)
(* takes two bytes in UTF-8.                                               *)

MinPasswordLen == 8
MaxTailLen == 3

AsciiUpper ==
    {"A", "B", "C", "D", "E", "F", "G", "H", "I", "J", "K", "L", "M",
     "N", "O", "P", "Q", "R", "S", "T", "U", "V", "W", "X", "Y", "Z"}
AsciiLower ==
    {"a", "b", "c", "d", "e", "f", "g", "h", "i", "j", "k", "l", "m",
     "n", "o", "p", "q", "r", "s", "t", "u", "v", "w", "x", "y", "z"}
AsciiDigit == {"0", "1", "2", "3", "4", "5", "6", "7", "8", "9"}
EAcute == "~"

is_ascii_uppercase(c) == c \in AsciiUpper
is_ascii_lowercase(c) == c \in AsciiLower
is_ascii_digit(c) == c \in AsciiDigit

\* char::len_utf8
len_utf8(c) == IF c = EAcute THEN 2 ELSE 1

\* str::chars
chars(s) == [i \in 1..Len(s) |-> SubSeq(s, i, i)]

\* str::len: the length in bytes
RECURSIVE str_len(_)
str_len(s) ==
    IF Len(s) = 0 THEN 0
    ELSE len_utf8(SubSeq(s, 1, 1)) + str_len(SubSeq(s, 2, Len(s)))

validate_password(password) ==
    IF str_len(password) < MinPasswordLen
    THEN Err("Password must be at least 8 characters long")
    ELSE IF ~\E i \in DOMAIN chars(password) :
                is_ascii_uppercase(chars(password)[i])
    THEN Err("Password must contain at least one uppercase letter")
    ELSE IF ~\E i \in DOMAIN chars(password) :
                is_ascii_lowercase(chars(password)[i])
    THEN Err("Password must contain at least one lowercase letter")
    ELSE IF ~\E i \in DOMAIN chars(password) :
                is_ascii_digit(chars(password)[i])
    THEN Err("Password must contain at least one number")
    ELSE Ok(<<>>)

PasswordAlphabet == {"A", "a", "1", EAcute}

RECURSIVE StringsOfLen(_)
StringsOfLen(n) ==
    IF n = 0 THEN {""}
    ELSE {s \o c : s \in StringsOfLen(n - 1), c \in PasswordAlphabet}

\* The passwords offered: a stem of zero to five characters followed by
\* every tail of at most MaxTailLen characters
PasswordStems ==
    {"", "Aa1a", "Aa1aa", "Aa1~~", "Aaaaa", "A1111", "a1111", "~~~~~"}

PasswordTails == UNION {StringsOfLen(n) : n \in 0..MaxTailLen}

Passwords == {stem \o tail : stem \in PasswordStems, tail \in PasswordTails}

ValidatePassword ==
    /\ last = Idle
    /\ \E password \in Passwords :
        last' = [op |-> "validate_password", password |-> password,
                 res |-> validate_password(password)]
    /\ UNCHANGED <<env_expiration, orch_vars, svc_vars>>
    /\ UNCHANGED <<now, ticks, env_secret, uuid_ctr, issued, holder, issues,
                   refreshes, users>>

NextPassword ==
    \/ ValidatePassword
    \/ Return

SpecPassword == InitAuth /\ [][NextPassword]_vars

----------------------------------------------------------------------------
(* AuthService::hash_password and verify_password, called as the test      *)
(* test_password_hashing calls them: a password is hashed, then passwords  *)
(* are verified against that hash.                                         *)

RECURSIVE Repeat(_, _)
Repeat(c, n) == IF n = 0 THEN "" ELSE c \o Repeat(c, n - 1)

RECURSIVE TailsOfLen(_)
TailsOfLen(n) ==
    IF n = 0 THEN {""}
    ELSE {s \o c : s \in TailsOfLen(n - 1), c \in {"a", "b"}}

\* Short passwords and passwords around the 72 bytes bcrypt takes
HashedPasswords ==
    {stem \o tail :
        stem \in {"", "TestPassword", Repeat("a", BcryptKeyLen - 2)},
        tail \in UNION {TailsOfLen(n) : n \in 0..MaxTailLen}}

HashPassword ==
    /\ last = Idle
    /\ \E password \in HashedPasswords, salt \in Salts :
        last' = [op |-> "hash_password", password |-> password,
                 res |-> hash_password(password, salt)]
    /\ UNCHANGED <<env_expiration, orch_vars, svc_vars>>
    /\ UNCHANGED <<now, ticks, env_secret, uuid_ctr, issued, holder, issues,
                   refreshes, users>>

VerifyPassword ==
    /\ last.op = "hash_password"
    /\ last.res.ok
    /\ \E password \in HashedPasswords :
        last' = [op |-> "verify_password", hashed |-> last.password,
                 hash |-> last.res.val, password |-> password,
                 res |-> verify_password(password, last.res.val)]
    /\ UNCHANGED <<env_expiration, orch_vars, svc_vars>>
    /\ UNCHANGED <<now, ticks, env_secret, uuid_ctr, issued, holder, issues,
                   refreshes, users>>

NextHash ==
    \/ HashPassword
    \/ VerifyPassword
    \/ Return

SpecHash == InitAuth /\ [][NextHash]_vars

----------------------------------------------------------------------------
(* Vocabulary of the properties *)

ServerSecret == ConfigJwtSecret(env_secret)

\* The token's signature is the server's, over the token as it now stands
SignedByServer(tok) ==
    tok.segs = 3 /\ tok.sig = Sign(ServerSecret, tok.alg, tok.payload)

CorrectlySigned(tok) == SignedByServer(tok) /\ tok.alg = "HS256"

CompleteClaims(tok) == ClaimsFields \subseteq DOMAIN tok.payload

\* The failure kinds of the specification, read off the error text
ErrorKind(err) ==
    CASE err \in {"Token expired", "Invalid token: ExpiredSignature",
                  "ExpiredSignature"} -> "Expired"
      [] err \in {"Invalid token: InvalidSignature", "InvalidSignature"}
            -> "InvalidSignature"
      [] err \in {"Invalid token: InvalidToken", "InvalidToken",
                  "Invalid token: JSON error: missing field",
                  "JSON error: missing field"} -> "Malformed"
      [] err \in {"Invalid token: InvalidAlgorithm", "InvalidAlgorithm"}
            -> "InvalidAlgorithm"
      [] OTHER -> "Other"

IsProtectedRequest(rq) == <<rq.method, rq.path>> \in ProtectedRoutes

\* A cause for which the gate has to turn a request away
RejectionCause(rq, t) ==
    \/ ~rq.authorization.present
    \/ rq.authorization.scheme # "Bearer "
    \/ ~validate_token(ServerSecret, t, rq.authorization.token).ok

Unauthorized == Reject(401)

----------------------------------------------------------------------------
(* C1: a request to a protected route that has no Authorization header, a  *)
(* header that is not bearer-prefixed, or a token that fails validation    *)
(* gets the unauthorized outcome and its handler is not invoked.           *)
FailClosedGate ==
    (last.op = "request"
     /\ IsProtectedRequest(last.request)
     /\ RejectionCause(last.request, last.at))
        => (last.resp.status = 401 /\ ~last.resp.handler)

(* C2 as stated: every token not signed with the server's secret fails      *)
(* validation with InvalidSignature.                                       *)
ForgedFailsInvalidSignature ==
    (last.op \in {"validate_token", "verify_token"}
     /\ ~SignedByServer(last.token))
        => (~last.res.ok /\ ErrorKind(last.res.err) = "InvalidSignature")

(* C2 amended: a token not signed with the server's secret never yields    *)
(* claims, from validate_token or verify_token; the failure is             *)
(* InvalidSignature when the token has three segments and an HS256 header, *)
(* Malformed when it has not three segments, InvalidAlgorithm when its     *)
(* header names another algorithm.                                         *)
ForgedNeverAuthenticates ==
    (last.op \in {"validate_token", "verify_token"}
     /\ ~SignedByServer(last.token))
        => /\ ~last.res.ok
           /\ ErrorKind(last.res.err) =
                IF last.token.segs # 3 THEN "Malformed"
                ELSE IF last.token.alg # "HS256" THEN "InvalidAlgorithm"
                ELSE "InvalidSignature"

\* C2 witness: a held token whose expiry was pushed back after signing is
\* presented while the altered expiry is still ahead, and is refused
ForgedPresented ==
    /\ last.op = "validate_token"
    /\ \E t \in issued : last.token = Extended(t) /\ CompleteClaims(t)
    /\ last.token.payload.exp >= last.at
    /\ ~last.res.ok

IsAccessToken(tok) ==
    /\ CorrectlySigned(tok) /\ CompleteClaims(tok)
    /\ tok.payload.exp - tok.payload.iat = AccessTtl

IsRefreshToken(tok) ==
    /\ CorrectlySigned(tok) /\ CompleteClaims(tok)
    /\ tok.payload.exp - tok.payload.iat = RefreshTtl

(* C4: the refresh operation rejects an access token, and validation of a  *)
(* bearer token (validate_token) rejects a refresh token.                  *)
RefreshTokensSinglePurpose ==
    /\ (last.op = "refresh_access_token" /\ IsAccessToken(last.token))
            => ~last.res.ok
    /\ (last.op = "validate_token" /\ IsRefreshToken(last.token))
            => ~last.res.ok

(* C5: a token returned by an issuing operation of AuthService, validated  *)
(* before its expiry, yields claims whose subject, username, email and     *)
(* role equal the inputs that operation was given.                         *)
IssueValidateRoundTrip ==
    (last.op = "validate_token"
     /\ last.token \in issued
     /\ holder.op \in {"generate_tokens", "generate_token"}
     /\ last.at <= last.token.payload.exp)
        => /\ last.res.ok
           /\ last.res.val.sub = holder.sub
           /\ last.res.val.username = holder.username
           /\ (holder.op = "generate_tokens") =>
                (last.res.val.email = holder.email)
           /\ (holder.op = "generate_token") =>
                ("role" \in DOMAIN last.res.val
                 /\ last.res.val.role = holder.role)

(* C6: the token returned by register or login, presented as a bearer      *)
(* token on a protected route, is accepted at every time up to its expiry  *)
(* and rejected as unauthorized at every time after it.                    *)
TokenLifecycle ==
    (last.op = "request"
     /\ IsProtectedRequest(last.request)
     /\ holder.op \in {"register", "login"}
     /\ last.request.authorization.present
     /\ last.request.authorization.scheme = "Bearer "
     /\ last.request.authorization.token \in issued)
        => IF last.at <= last.request.authorization.token.payload.exp
           THEN last.resp.handler
           ELSE last.resp = Unauthorized

\* The allowlist as the specification names it
Allowlist ==
    {<<"POST", "/api/auth/register">>, <<"POST", "/api/auth/login">>,
     <<"POST", "/api/auth/refresh">>, <<"GET", "/health">>,
     <<"GET", "/metrics">>, <<"GET", "/ws">>}

(* C7: a request to an allowlisted route reaches its handler whatever its  *)
(* Authorization header is: absent, not bearer, or a bearer token that     *)
(* fails validation.                                                       *)
AllowlistBypass ==
    (last.op = "request"
     /\ <<last.request.method, last.request.path>> \in Allowlist)
        => last.resp.handler

\* C7 witness: an allowlisted route is reached with a token that fails
\* validation
AllowlistReachedWithBadToken ==
    /\ last.op = "request"
    /\ <<last.request.method, last.request.path>> = <<"POST", "/api/auth/refresh">>
    /\ last.request.authorization.present
    /\ last.request.authorization.scheme = "Bearer "
    /\ ~validate_token(ServerSecret, last.at,
                       last.request.authorization.token).ok
    /\ last.resp.handler

ClaimsPropagation ==
    (last.op = "request"
     /\ IsProtectedRequest(last.request)
     /\ last.resp.handler
     /\ ~RejectionCause(last.request, last.at))
        => last.resp.seen =
             {validate_token(ServerSecret, last.at,
                             last.request.authorization.token).val}

(* C10: extract_bearer_token and extract_token_from_header succeed exactly *)
(* on the header values that start with the seven characters "Bearer ",    *)
(* return the rest of the value after those seven characters, and agree;   *)
(* on every other value extract_bearer_token fails with the header-format  *)
(* error and extract_token_from_header returns None.                       *)
ExtractBearerContract ==
    (last.op \in {"extract_bearer_token", "extract_token_from_header"}) =>
        LET h == last.header
            bearer == /\ Len(h) >= 7
                      /\ h[1] = "B" /\ h[2] = "e" /\ h[3] = "a" /\ h[4] = "r"
                      /\ h[5] = "e" /\ h[6] = "r" /\ h[7] = " "
        IN /\ last.res.ok <=> bearer
           /\ last.res.ok =>
                /\ Len(last.res.val) = Len(h) - 7
                /\ h = BearerPrefix \o last.res.val
           /\ (~last.res.ok /\ last.op = "extract_bearer_token") =>
                last.res.err = "Invalid authorization header format"
           /\ extract_bearer_token(h).ok = extract_token_from_header(h).ok
           /\ extract_bearer_token(h).ok =>
                extract_bearer_token(h).val = extract_token_from_header(h).val

\* C10 witness: a bearer header with a non-empty token is parsed
BearerParsed ==
    /\ last.op = "extract_bearer_token"
    /\ last.res.ok
    /\ Len(last.res.val) = MaxRestLen

----------------------------------------------------------------------------
\* A token that is forged, altered, not a token of Claims, or past its exp
InvalidOrExpired(tok, t) ==
    \/ ~CorrectlySigned(tok)
    \/ ~CompleteClaims(tok)
    \/ t > tok.payload.exp

(* C11: refresh_access_token, given the refresh token of a pair issued by  *)
(* generate_tokens and not yet expired, returns a new pair whose two       *)
(* tokens validate to the subject, username and email of the original and  *)
(* whose jti differ from those of the original pair; given an invalid or   *)
(* expired token it fails, and no pair is issued.                          *)
RefreshReMintsSameSubject ==
    [][(last = Idle /\ last'.op = "refresh_access_token") =>
        LET tok == last'.token
            r == last'.res
        IN /\ (tok \in issued /\ IsRefreshToken(tok)
                /\ now <= tok.payload.exp)
                => (/\ r.ok
                    /\ issued' = {r.val.access_token, r.val.refresh_token}
                    /\ \A nt \in issued' :
                         LET v == validate_token(ServerSecret, now, nt)
                         IN /\ v.ok
                            /\ v.val.sub = tok.payload.sub
                            /\ v.val.username = tok.payload.username
                            /\ v.val.email = tok.payload.email
                            /\ \A o \in issued : v.val.jti # o.payload.jti)
           /\ InvalidOrExpired(tok, now)
                => (~r.ok /\ issued' = issued /\ uuid_ctr' = uuid_ctr)
      ]_vars

\* C11 witness: a refresh token is exchanged some time after it was issued
RefreshedLater ==
    /\ last.op = "refresh_access_token"
    /\ IsRefreshToken(last.token)
    /\ last.at > last.token.payload.iat
    /\ last.res.ok
    /\ holder.op = "refresh_access_token"

----------------------------------------------------------------------------
HardcodedSecrets == {ConfigDefaultSecret, HandlerDefaultSecret}

\* The key a signature was made with
SigningKey(tok) == tok.sig[1]

(* C12: with no signing secret in the environment, issuing a token fails;  *)
(* no token is signed with a hardcoded default secret and none is accepted *)
(* under one.                                                              *)
NoFallbackSecret ==
    /\ (last.op \in {"generate_tokens", "generate_token"}
        /\ env_secret = Unset)
            => ~last.res.ok
    /\ \A tok \in issued : SigningKey(tok) \notin HardcodedSecrets
    /\ (last.op \in {"validate_token", "verify_token"} /\ last.res.ok)
            => SigningKey(last.token) \notin HardcodedSecrets

----------------------------------------------------------------------------
\* The downstream answers a request with a 2xx status
Answers2xx(s) ==
    downstream[s].kind = "answer" /\ is_success(downstream[s].status)

(* C13: the response to GET /health is 503 exactly when the database check *)
(* or the cache check failed, whatever the downstream services do, and     *)
(* each downstream service appears in the response with its own status.    *)
HealthRollUp ==
    (hc.pc = "done")
        => (/\ (hc.resp.status = 503) <=> (~deps.db \/ ~deps.redis)
            /\ (hc.resp.status = 200) <=> (deps.db /\ deps.redis)
            /\ \A s \in Services :
                /\ s \in DOMAIN hc.resp.body.services
                /\ hc.resp.body.services[s] =
                     IF Answers2xx(s) THEN "healthy" ELSE "unhealthy")

(* C14: the map health_check returns has exactly one entry per registered  *)
(* service, true if and only if the service's /health probe got a 2xx      *)
(* status; a probe that fails makes that service's entry false, leaves the *)
(* other entries as they are, and health_check still returns its map.      *)
HealthCheckResult ==
    /\ \A s \in DOMAIN hc.health_status :
            s \in Services /\ (hc.health_status[s] <=> Answers2xx(s))
    /\ (hc.pc = "joined") => (DOMAIN hc.health_status = Services)

\* C14 witness: health_check returns with one service unreachable and the
\* other two healthy
OneUnreachableTwoHealthy ==
    /\ hc.pc = "joined"
    /\ downstream["analytics"] = Refused
    /\ Answers2xx("nutrition") /\ Answers2xx("recipe-import")
    /\ hc.health_status =
         [s \in Services |-> s # "analytics"]

\* The probe of service s has been sent
ProbeStarted(s) == \E r \in net : r.to = s

(* C15: within one health_check, every probe has been started before the   *)
(* result of any probe is awaited.                                         *)
ProbesFanOut ==
    (hc.pc = "await") => (\A s \in DOMAIN service_urls : ProbeStarted(s))

(* C16: every orchestrated call and every GET /health (with the            *)
(* health_check inside it) eventually returns, also when a downstream      *)
(* accepts the connection and never responds.                              *)
BoundedWaiting ==
    /\ (hc.pc = "db") ~> (hc.pc = "done")
    /\ (call.pc = "lookup") ~> (call.pc = "done")

(* C17: an orchestrated call returns an error whenever the downstream      *)
(* answered with a non-2xx status or the transport failed, and a JSON      *)
(* value only when the downstream answered 2xx.                            *)
UpstreamFailuresAreErrors ==
    (call.pc = "done")
        => (/\ ~Answers2xx(call.service) => ~call.res.ok
            /\ call.res.ok => Answers2xx(call.service))

----------------------------------------------------------------------------
(* C19: in every pair generate_tokens returns, the access and the refresh  *)
(* token carry the same subject, username and email (those given), have    *)
(* different jti, were issued at the same time, and the refresh token      *)
(* expires strictly later: the access token one hour and the refresh token *)
(* thirty days after iat.                                                  *)
TokenPairDistinct ==
    (last.op \in {"generate_tokens", "refresh_access_token"} /\ last.res.ok)
        => LET a == last.res.val.access_token.payload
               r == last.res.val.refresh_token.payload
           IN /\ a.sub = r.sub /\ a.username = r.username /\ a.email = r.email
              /\ (last.op = "generate_tokens")
                    => (/\ a.sub = UuidToString(last.who.id)
                        /\ a.username = last.who.username
                        /\ a.email = last.who.email)
              /\ a.jti # r.jti
              /\ a.iat = last.at /\ r.iat = last.at
              /\ a.exp = a.iat + 3600
              /\ r.exp = r.iat + 30 * 86400
              /\ r.exp > a.exp

\* C19 witness: generate_tokens has returned a pair
PairIssued ==
    /\ last.op = "generate_tokens"
    /\ last.res.ok
    /\ issued = {last.res.val.access_token, last.res.val.refresh_token}
    /\ Cardinality(issued) = 2

----------------------------------------------------------------------------
\* The claims token tok carries were made at time t with the configured TTL
HonoursTtl(tok, t) ==
    /\ "iat" \in DOMAIN tok.payload
    /\ tok.payload.iat = t
    /\ tok.payload.exp - tok.payload.iat = ConfigJwtExpiration(env_expiration)

(* C20: every access token issued, by generate_token, generate_tokens,     *)
(* register or login, has iat equal to the time of issue and exp - iat     *)
(* equal to the configured TTL (JWT_EXPIRATION, 3600 s by default), and    *)
(* the pair's expires_in equals that difference.                           *)
ConfiguredTtlHonoured ==
    /\ (last.op = "generate_tokens" /\ last.res.ok)
            => (/\ HonoursTtl(last.res.val.access_token, last.at)
                /\ last.res.val.expires_in =
                        ConfigJwtExpiration(env_expiration))
    /\ (last.op = "generate_token" /\ last.res.ok)
            => HonoursTtl(last.res.val, last.at)
    /\ (last.op \in {"register", "login"} /\ last.res.status = 200)
            => HonoursTtl(last.res.token, last.at)

----------------------------------------------------------------------------
\* The number of characters of a string
CharCount(s) == Len(s)

HasChar(s, class) == \E i \in 1..Len(s) : SubSeq(s, i, i) \in class

(* C21: validate_password accepts a password if and only if it has at      *)
(* least 8 characters and contains an ASCII uppercase letter, an ASCII     *)
(* lowercase letter and an ASCII digit.                                    *)
PasswordPolicy ==
    (last.op = "validate_password")
        => (last.res.ok
              <=> (/\ CharCount(last.password) >= 8
                   /\ HasChar(last.password, AsciiUpper)
                   /\ HasChar(last.password, AsciiLower)
                   /\ HasChar(last.password, AsciiDigit)))

----------------------------------------------------------------------------
SameFirst72(p, q) ==
    /\ Len(p) >= 72 /\ Len(q) >= 72
    /\ SubSeq(p, 1, 72) = SubSeq(q, 1, 72)

----------------------------------------------------------------------------
----------------------------------------------------------------------------
(* C24: for every token and every clock value, validate_token returns Ok   *)
(* if and only if verify_token returns Ok, and when both succeed they      *)
(* return the same claims.                                                 *)
ValidateVerifyAgree ==
    (last.op \in {"validate_token", "verify_token"})
        => LET validated == validate_token(ServerSecret, last.at, last.token)
               verified == verify_token(ServerSecret, last.at, last.token)
           IN /\ last.res = IF last.op = "validate_token" THEN validated
                             ELSE verified
              /\ validated.ok <=> verified.ok
              /\ (validated.ok /\ verified.ok)
                    => (validated.val = verified.val)

----------------------------------------------------------------------------
\* The users table has a row for the email whose hash verifies the password
CredentialsVerify(rows, email, password) ==
    \E row \in rows :
        row.email = email /\ verify(password, row.password_hash)

(* C25: every login response that carries a token is for an email with a   *)
(* stored user row whose password hash verifies the submitted password; an *)
(* unknown email or a wrong password yields no token and the status        *)
(* UNAUTHORIZED (INTERNAL_SERVER_ERROR if the database query failed).      *)
LoginOnlyVerifiedCredentials ==
    (last.op = "login")
        => (/\ (last.res.status = 200)
                  => CredentialsVerify(users, last.payload.email,
                                       last.payload.password)
            /\ ~CredentialsVerify(users, last.payload.email,
                                  last.payload.password)
                  => (/\ last.res.status \in {401, 500}
                      /\ last.res.token = Garbage))

----------------------------------------------------------------------------
(* handlers/mod.rs, auth_handlers::register, request by request.  Each    *)
(* await of the handler is a step, so the statements of several requests  *)
(* interleave at the database.  No statement runs in a transaction.  The  *)
(* table's definition is not part of the gateway's source: the INSERT      *)
(* either succeeds whatever rows exist, or is refused when a row with the  *)
(* same email exists (users_email_unique).  db_ok tells whether the        *)
(* database answers the statement at all.                                  *)

\* The row the INSERT statement writes
UserRow(r) ==
    [id |-> r.user_id, username |-> r.payload.username,
     email |-> r.payload.email,
     password_hash |-> hash(r.payload.password, r.salt)]

\* .execute(&state.db).await on the INSERT: Ok(rows) or Err
insert_user(unique, rows, row) ==
    IF unique /\ RowsByEmail(rows, row.email) # {}
    THEN Err("duplicate key value violates unique constraint")
    ELSE Ok(rows \cup {row})

\* return Err(status)
RegFailed(r, status) == [r EXCEPT !.pc = "done", !.status = status]

\* POST /api/auth/register arrives
RegisterArrive(i) ==
    /\ reg[i].pc = "idle"
    /\ \E payload \in RegisterPayloads :
        reg' = [reg EXCEPT ![i] = [RegIdle EXCEPT !.pc = "select",
                                                  !.payload = payload]]
    /\ UNCHANGED <<auth_vars, env_expiration, orch_vars, users_email_unique,
                   import_vars, rate_vars>>

\* SELECT id FROM users WHERE email = $1; then hash and Uuid::new_v4()
RegisterSelect(i) ==
    /\ reg[i].pc = "select"
    /\ \E db_ok \in BOOLEAN, salt \in Salts :
        IF ~db_ok
        THEN /\ reg' = [reg EXCEPT ![i] = RegFailed(@, 500)]
             /\ UNCHANGED uuid_ctr
        ELSE IF RowsByEmail(users, reg[i].payload.email) # {}
        THEN /\ reg' = [reg EXCEPT ![i] = RegFailed(@, 409)]
             /\ UNCHANGED uuid_ctr
        ELSE /\ reg' = [reg EXCEPT ![i].pc = "insert",
                                   ![i].user_id = uuid_ctr + 1,
                                   ![i].salt = salt]
             /\ uuid_ctr' = uuid_ctr + 1
    /\ UNCHANGED <<now, ticks, env_secret, issued, holder, issues, refreshes,
                   users, last>>
    /\ UNCHANGED <<env_expiration, orch_vars, users_email_unique,
                   import_vars, rate_vars>>

\* INSERT INTO users (...) VALUES (...)
RegisterInsert(i) ==
    /\ reg[i].pc = "insert"
    /\ \E db_ok \in BOOLEAN :
        LET inserted == insert_user(users_email_unique, users, UserRow(reg[i]))
        IN IF db_ok /\ inserted.ok
           THEN /\ users' = inserted.val
                /\ reg' = [reg EXCEPT ![i].pc = "fetch"]
           ELSE /\ reg' = [reg EXCEPT ![i] = RegFailed(@, 500)]
                /\ UNCHANGED users
    /\ UNCHANGED <<now, ticks, env_secret, uuid_ctr, issued, holder, issues,
                   refreshes, last>>
    /\ UNCHANGED <<env_expiration, orch_vars, users_email_unique,
                   import_vars, rate_vars>>

\* SELECT id, username, email FROM users WHERE id = $1; then the JWT
RegisterFetch(i) ==
    /\ reg[i].pc = "fetch"
    /\ \E db_ok \in BOOLEAN :
        LET found == {r \in users : r.id = reg[i].user_id}
        IN IF ~db_ok \/ found = {}
           THEN reg' = [reg EXCEPT ![i] = RegFailed(@, 500)]
           ELSE LET user == CHOOSE r \in found : TRUE
                IN reg' = [reg EXCEPT
                     ![i].pc = "done",
                     ![i].status = 200,
                     ![i].token = HandlerToken(env_secret, now,
                                      UuidToString(user.id), user.email)]
    /\ UNCHANGED <<auth_vars, env_expiration, orch_vars, users_email_unique,
                   import_vars, rate_vars>>

\* The table as the gateway finds it, and no request yet
InitRegister ==
    /\ now = StartTime
    /\ ticks = 0
    /\ env_secret \in EnvSecrets
    /\ uuid_ctr = 0
    /\ issued = {}
    /\ holder = Nobody
    /\ issues = 0
    /\ refreshes = 0
    /\ users = {}
    /\ last = Idle
    /\ env_expiration = Unset
    /\ OrchestratorAtRest
    /\ users_email_unique \in BOOLEAN
    /\ reg = [i \in RegIds |-> RegIdle]
    /\ import_jobs = EmptyMap
    /\ tasks = EmptyMap
    /\ import_uuid = 0
    /\ returned = {}
    /\ status_res = NoStatusCall
    /\ redis = NoKey
    /\ rl = [i \in RateCallIds |-> RlIdle]

NextRegister ==
    \/ \E i \in RegIds : RegisterArrive(i)
    \/ \E i \in RegIds : RegisterSelect(i)
    \/ \E i \in RegIds : RegisterInsert(i)
    \/ \E i \in RegIds : RegisterFetch(i)

SpecRegister == InitRegister /\ [][NextRegister]_vars

\* C26: register keeps emails unique under concurrency: whatever the
\* interleaving of register requests, the users table never holds two rows
\* with one email, a request that found a row for its email answers
\* CONFLICT without a token, and no two requests for one email both
\* succeed with a token.
RegisterKeepsEmailsUnique ==
    /\ \A r1, r2 \in users : (r1.email = r2.email) => (r1 = r2)
    /\ \A i \in RegIds :
        (reg[i].status = 409) => (reg[i].token = Garbage)
    /\ \A i, j \in RegIds :
        (/\ i # j
         /\ reg[i].status = 200
         /\ reg[j].status = 200)
        => (reg[i].payload.email # reg[j].payload.email)

----------------------------------------------------------------------------
(* recipe-import-service: import_recipes, the background task it spawns,  *)
(* RecipeImporter::import_from_repository and get_import_status.  A       *)
(* repository is what the importer finds at the URL: whether git clones   *)
(* it, and for each recipe file whether it parses and converts.           *)

ImportUrls == {"https://github.com/org/recipes"}

\* ImportRequest
ImportRequests == {[repository_url |-> u] : u \in ImportUrls}

FileOutcomes == {"ok", "parse_err", "convert_err"}

Repositories ==
    {[clone_ok |-> FALSE, files |-> <<>>]}
    \cup {[clone_ok |-> TRUE, files |-> f] :
            f \in UNION {[1..n -> FileOutcomes] : n \in 0..MaxFiles}}

\* ImportBatch { id, repository_url, import_status, 0, 0, 0, Vec::new(),
\*               started_at: Utc::now(), completed_at: None, created_by: None }
NewBatch(id, repository_url, import_status, t) ==
    [id |-> id, repository_url |-> repository_url,
     import_status |-> import_status, total_recipes |-> 0,
     successful_imports |-> 0, failed_imports |-> 0, error_log |-> <<>>,
     started_at |-> t, completed_at |-> None, created_by |-> None]

\* format!("...: {}", e): an entry of error_log
LogEntry(what, file) == [what |-> what, file |-> file]

\* self.clone_repository(url, path).await
clone_repository(repo) ==
    IF repo.clone_ok THEN Ok(<<>>) ELSE Err("Git clone failed")

\* self.scan_recipe_files(path).await: every path of it returns Ok
scan_recipe_files(repo) == Ok(repo.files)

\* The body of "for recipe_file in recipe_files" with the parse errors
\* logged but not counted
RECURSIVE process_files_parse_errors_uncounted(_, _, _)
RECURSIVE process_files(_, _, _)
process_files_parse_errors_uncounted(batch, recipe_files, i) ==
    IF i > Len(recipe_files) THEN batch
    ELSE process_files_parse_errors_uncounted(
            CASE recipe_files[i] = "ok" ->
                    [batch EXCEPT !.successful_imports = @ + 1]
              [] recipe_files[i] = "convert_err" ->
                    [batch EXCEPT
                        !.failed_imports = @ + 1,
                        !.error_log = Append(@, LogEntry("Failed to convert", i))]
              [] recipe_files[i] = "parse_err" ->
                    [batch EXCEPT
                        !.error_log = Append(@, LogEntry("Failed to parse", i))],
            recipe_files, i + 1)

\* for recipe_file in recipe_files { match parse_recipe_file ... }
process_files(batch, recipe_files, i) ==
    IF i > Len(recipe_files) THEN batch
    ELSE process_files(
            CASE recipe_files[i] = "ok" ->
                    [batch EXCEPT !.successful_imports = @ + 1]
              [] recipe_files[i] = "convert_err" ->
                    [batch EXCEPT
                        !.failed_imports = @ + 1,
                        !.error_log = Append(@, LogEntry("Failed to convert", i))]
              [] recipe_files[i] = "parse_err" ->
                    [batch EXCEPT
                        !.failed_imports = @ + 1,
                        !.error_log = Append(@, LogEntry("Failed to parse", i))],
            recipe_files, i + 1)

\* batch.import_status = Failed; error_log.push(..); completed_at = Some(now)
FailBatch(batch, what, t) ==
    [batch EXCEPT !.import_status = "Failed",
                  !.error_log = Append(@, LogEntry(what, 0)),
                  !.completed_at = Some(t)]

\* import_from_repository: batch_id is the Uuid::new_v4() it draws
import_from_repository(request, batch_id, t, repo) ==
    LET batch == NewBatch(batch_id, request.repository_url, "InProgress", t)
        scanned == scan_recipe_files(repo)
    IN IF ~clone_repository(repo).ok
       THEN Ok(FailBatch(batch, "Repository clone failed", t))
       ELSE IF ~scanned.ok
       THEN Ok(FailBatch(batch, "File scanning failed", t))
       ELSE LET recipe_files == scanned.val
                counted ==
                    process_files(
                        [batch EXCEPT !.total_recipes = Len(recipe_files)],
                        recipe_files, 1)
            IN Ok([counted EXCEPT !.import_status = "Completed",
                                  !.completed_at = Some(t)])

\* The spawned task's match with the result stored under the result's id
store_result_under_its_id(jobs, batch_id, initial_batch, result, t) ==
    IF result.ok
    THEN Insert(jobs, result.val.id, result.val)
    ELSE Insert(jobs, batch_id, FailBatch(initial_batch, "Import failed", t))

\* The spawned task's match: jobs.insert(batch_id, ..) in either arm
store_result(jobs, batch_id, initial_batch, result, t) ==
    IF result.ok
    THEN Insert(jobs, batch_id, result.val)
    ELSE Insert(jobs, batch_id, FailBatch(initial_batch, "Import failed", t))

\* get_import_status: the batch under the key, or NOT_FOUND
get_import_status(jobs, batch_id) ==
    IF batch_id \in DOMAIN jobs THEN Ok(jobs[batch_id]) ELSE Err(404)

\* The repositories met by the background tasks: one that does not clone,
\* an empty one and those with a single recipe file
JobRepositories == {repo \in Repositories : Len(repo.files) <= 1}

\* POST /import: the whole handler; the task it spawns starts at "import"
ImportRecipes ==
    /\ Cardinality(returned) < MaxImports
    /\ \E request \in ImportRequests :
        LET batch_id == import_uuid + 1
            initial_batch ==
                NewBatch(batch_id, request.repository_url, "Pending", now)
        IN /\ import_jobs' = Insert(import_jobs, batch_id, initial_batch)
           /\ tasks' = Insert(tasks, batch_id,
                   [pc |-> "import", request |-> request,
                    initial_batch |-> initial_batch, result |-> Err("")])
           /\ import_uuid' = batch_id
           /\ returned' = returned \cup {batch_id}
    /\ UNCHANGED <<auth_vars, env_expiration, orch_vars, reg_vars, rate_vars,
                   status_res>>

\* The task: importer.import_from_repository(request).await
TaskImport(k) ==
    /\ k \in DOMAIN tasks
    /\ tasks[k].pc = "import"
    /\ \E repo \in JobRepositories :
        tasks' = [tasks EXCEPT
            ![k].pc = "store",
            ![k].result = import_from_repository(tasks[k].request,
                              import_uuid + 1, now, repo)]
    /\ import_uuid' = import_uuid + 1
    /\ UNCHANGED <<auth_vars, env_expiration, orch_vars, reg_vars, rate_vars,
                   import_jobs, returned, status_res>>

\* The task: import_jobs.write().await and jobs.insert
TaskStore(k) ==
    /\ k \in DOMAIN tasks
    /\ tasks[k].pc = "store"
    /\ import_jobs' = store_result(import_jobs, k, tasks[k].initial_batch,
                                   tasks[k].result, now)
    /\ tasks' = [tasks EXCEPT ![k].pc = "done"]
    /\ UNCHANGED <<auth_vars, env_expiration, orch_vars, reg_vars, rate_vars,
                   import_uuid, returned, status_res>>

\* GET /import/:batch_id, for an id that was drawn or one that was not
GetImportStatus ==
    /\ \E batch_id \in 1..(import_uuid + 1) :
        status_res' = [batch_id |-> batch_id,
                       res |-> get_import_status(import_jobs, batch_id)]
    /\ UNCHANGED <<auth_vars, env_expiration, orch_vars, reg_vars, rate_vars,
                   import_jobs, tasks, import_uuid, returned>>

\* The ids drawn: one by each import_recipes, one by each import
ImportIds == 1..(MaxImports + MaxImports)

\* import_from_repository called on its own, on every repository
ImportFromRepository ==
    /\ last = Idle
    /\ \E request \in ImportRequests, batch_id \in ImportIds,
          repo \in Repositories :
        last' = [op |-> "import_from_repository", at |-> now,
                 request |-> request, repo |-> repo,
                 res |-> import_from_repository(request, batch_id, now, repo)]
    /\ UNCHANGED <<env_expiration, orch_vars, svc_vars>>
    /\ UNCHANGED <<now, ticks, env_secret, uuid_ctr, issued, holder, issues,
                   refreshes, users>>

NextImporter ==
    \/ ImportFromRepository
    \/ Return

SpecImporter == InitAuth /\ [][NextImporter]_vars

NextImport ==
    \/ ImportRecipes
    \/ \E k \in ImportIds : TaskImport(k)
    \/ \E k \in ImportIds : TaskStore(k)
    \/ GetImportStatus

SpecImport == InitAuth /\ [][NextImport]_vars

\* C27: the import job key matches the batch id: every batch stored in
\* import_jobs under key k has id k, so get_import_status(k) answers with
\* a batch whose id is the batch_id import_recipes returned.
ImportJobKeyMatchesBatchId ==
    /\ \A k \in DOMAIN import_jobs : import_jobs[k].id = k
    /\ status_res.res.ok => (status_res.res.val.id = status_res.batch_id)

FinalStatuses == {"Completed", "Failed"}

ImportBatchAccounting ==
    (last.op = "import_from_repository") =>
        /\ last.res.ok
        /\ LET batch == last.res.val
           IN /\ batch.import_status \in FinalStatuses
              /\ batch.completed_at # None
              /\ batch.successful_imports + batch.failed_imports
                    = batch.total_recipes
              /\ (batch.import_status = "Completed")
                    => (Len(batch.error_log) = batch.failed_imports)
              /\ (batch.import_status = "Failed")
                    => (batch.error_log # <<>>)

\* A Completed batch in which a file was imported, one failed to parse and
\* one failed to convert
MixedBatchReturned ==
    /\ last.op = "import_from_repository"
    /\ last.res.val.import_status = "Completed"
    /\ last.res.val.successful_imports >= 1
    /\ \E i, j \in 1..Len(last.repo.files) :
        /\ last.repo.files[i] = "parse_err"
        /\ last.repo.files[j] = "convert_err"

----------------------------------------------------------------------------
(* cache.rs, CacheService::increment_rate_limit, on one key.  Redis runs  *)
(* each command atomically: INCR creates a missing key at 1 without an    *)
(* expiry and leaves the expiry of an existing key alone; EXPIRE sets the *)
(* expiry of an existing key; a key is gone once its expiry has passed.   *)
(* Each await of the function is a step, and each may fail.               *)

\* window: Duration, in seconds
Windows == {60}

\* The key as a command finds it at time t
live(key, t) ==
    IF key.expire_at.some /\ t >= key.expire_at.v THEN NoKey ELSE key

\* INCR key
incr(key, t) == [live(key, t) EXCEPT !.count = @ + 1]

\* EXPIRE key seconds
expire(key, t, seconds) ==
    IF live(key, t).count = 0 THEN NoKey
    ELSE [live(key, t) EXCEPT !.expire_at = Some(t + seconds)]

\* increment_rate_limit is called: client.get_async_connection().await?
RateLimitCall(i) ==
    /\ rl[i].pc = "idle"
    /\ \E window \in Windows, ok \in BOOLEAN :
        rl' = [rl EXCEPT ![i] =
                IF ok THEN [RlIdle EXCEPT !.pc = "incr", !.window = window]
                ELSE [RlIdle EXCEPT !.pc = "done", !.window = window,
                                    !.res = Err("connection")]]
    /\ UNCHANGED <<auth_vars, env_expiration, orch_vars, reg_vars,
                   import_vars, redis>>

\* let count: i32 = conn.incr(key, 1).await?
RateLimitIncr(i) ==
    /\ rl[i].pc = "incr"
    /\ live(redis, now).count < MaxCount
    /\ \E ok \in BOOLEAN :
        IF ~ok
        THEN /\ rl' = [rl EXCEPT ![i].pc = "done", ![i].res = Err("incr")]
             /\ UNCHANGED redis
        ELSE /\ redis' = incr(redis, now)
             /\ rl' = [rl EXCEPT
                    ![i].count = redis'.count,
                    ![i].pc = IF redis'.count = 1 THEN "expire" ELSE "done",
                    ![i].res = IF redis'.count = 1 THEN @
                               ELSE Ok(redis'.count)]
    /\ UNCHANGED <<auth_vars, env_expiration, orch_vars, reg_vars,
                   import_vars>>

\* if count == 1 { conn.expire(key, seconds).await? }; Ok(count)
RateLimitExpire(i) ==
    /\ rl[i].pc = "expire"
    /\ \E ok \in BOOLEAN :
        IF ~ok
        THEN /\ rl' = [rl EXCEPT ![i].pc = "done", ![i].res = Err("expire")]
             /\ UNCHANGED redis
        ELSE /\ redis' = expire(redis, now, rl[i].window)
             /\ rl' = [rl EXCEPT ![i].pc = "done",
                                 ![i].res = Ok(rl[i].count)]
    /\ UNCHANGED <<auth_vars, env_expiration, orch_vars, reg_vars,
                   import_vars>>

\* The caller has the result
RateLimitReturn(i) ==
    /\ rl[i].pc = "done"
    /\ rl' = [rl EXCEPT ![i] = RlIdle]
    /\ UNCHANGED <<auth_vars, env_expiration, orch_vars, reg_vars,
                   import_vars, redis>>

\* Time passes: a second, or a whole window
RateTick ==
    /\ ticks < MaxTicks
    /\ \E d \in {1} \cup Windows : now' = now + d
    /\ ticks' = ticks + 1
    /\ UNCHANGED <<env_secret, uuid_ctr, issued, holder, issues, refreshes,
                   users, last>>
    /\ UNCHANGED <<env_expiration, orch_vars, svc_vars>>

NextRate ==
    \/ \E i \in RateCallIds : RateLimitCall(i)
    \/ \E i \in RateCallIds : RateLimitIncr(i)
    \/ \E i \in RateCallIds : RateLimitExpire(i)
    \/ \E i \in RateCallIds : RateLimitReturn(i)
    \/ RateTick

SpecRate == InitAuth /\ [][NextRate]_vars

\* C30: the rate-limit window always expires: once no call is between its
\* increment and its expire step, also after calls whose expire step
\* failed, a key whose counter is at least 1 has an expiry set.
RateLimitWindowExpires ==
    (\A i \in RateCallIds : rl[i].pc # "expire")
    => ((live(redis, now).count >= 1) => live(redis, now).expire_at.some)

====
